---- MODULE Spec2Model ----
(***************************************************************************)
(* glu-code: the terminal UI's recording state machine (tui/app.ts), the   *)
(* speech-to-text helper subprocesses it spawns (scripts/stt-helper.cjs)   *)
(* and the handlers that fold the helper's output into the prompt draft.   *)
(*                                                                         *)
(* Text is a sequence of one-character strings; the JavaScript value       *)
(* `undefined` is the one-element sequence Undef.  A handler is an         *)
(* operator from a world record (the fields a handler can touch) to the    *)
(* world after the handler returned, so that handlers compose as the code  *)
(* composes them (enterEdit calls stopRecording calls stopRecorder).       *)
(***************************************************************************)
EXTENDS Integers, Sequences, FiniteSets, TLC

VARIABLES
    state,        \* the AppState object of startTui
    procs,        \* every helper subprocess spawned so far, in spawn order
    statusText,   \* statusText.content
    editorText,   \* promptEditor.plainText
    prompts,      \* the prompts table: prompts[id] is the text of record id
    runs,         \* the runs table: runs[id] is the prompt id of run id
    historyOptions, \* historyList.options: for each prompt id, the text and last run
                  \* the list read from the tables when it was last refreshed
    modelExists,  \* whether state.modelPath names an existing directory
    quit,         \* process.exit was called by shutdown
    nStderr,      \* history: stderr chunks delivered so far
    lastOp,       \* history: the handler that ran last, and its subprocess
    finalsLog,    \* history: texts of the finals delivered while Recording since startRecording
    draftPure,    \* history: only startRecording and finals wrote the draft since startRecording
    lateInEdit,   \* history: a transcript line changed the state during the editing session
                  \* that is open, or that exitEdit has just closed
    sinceStart    \* history: empty, or, once a recording was started and no history item
                  \* selected since, the prompts table at that start and the saves since

vars == <<state, procs, statusText, editorText, prompts, runs, historyOptions,
          modelExists, quit,
          nStderr, lastOp, finalsLog, draftPure, lateInEdit, sinceStart>>

----------------------------------------------------------------------------
(* Bounds of the model *)

MaxProcs == 2      \* subprocesses spawned in one run of the application
MaxTextProcs == 1  \* the same, in the specification of the transcript text
MaxDraftLen == 3   \* characters of the draft
MaxFinals == 2     \* finals logged for one recording
MaxStderr == 1     \* stderr chunks delivered in one run of the application
MaxStoreProcs == 1 \* subprocesses spawned, in the specification of the store
MaxPrompts == 3    \* records of the prompts table
MaxRuns == 2       \* records of the runs table
MaxSaves == 2      \* saves counted for one recording

----------------------------------------------------------------------------
(* Text *)

Undef == <<"undefined">>

Ws == " "

RECURSIVE TrimLeft(_)
TrimLeft(s) ==
    IF s = <<>> THEN s
    ELSE IF Head(s) = Ws THEN TrimLeft(Tail(s)) ELSE s

RECURSIVE TrimRight(_)
TrimRight(s) ==
    IF s = <<>> THEN s
    ELSE IF s[Len(s)] = Ws THEN TrimRight(SubSeq(s, 1, Len(s) - 1)) ELSE s

\* String.prototype.trim
Trim(s) == TrimRight(TrimLeft(s))

\* JavaScript truthiness of a string-or-undefined value
Truthy(t) == t # Undef /\ t # <<>>

\* Texts a transcript line can carry
LineTexts == { <<>>, <<" ">>, <<"a">>, <<" ", "b", " ">> }

\* Texts the user can leave in the editor
EditTexts == { <<>>, <<"a", " ">>, <<"b">> }

\* Messages a subprocess can write to stderr (already a string; trimmed by the handler)
StderrTexts == { <<"e", " ">> }

----------------------------------------------------------------------------
(* The world a handler runs in, and the state after construction *)

\* The fields of the program a handler can read and write
World == [state |-> state, procs |-> procs,
          statusText |-> statusText, editorText |-> editorText,
          prompts |-> prompts, runs |-> runs, options |-> historyOptions]

\* No value: activePromptId, lastRun and recorder are `undefined`
None == 0

\* The prompts table of an earlier run of the application: one saved prompt
StoredPrompts == << <<"b">> >>

\* The runs table of that earlier run: one launch of prompt 1
StoredRuns == << 1 >>

\* buildStatusLine: the mode, the partial marker and the prompt label of the status line
buildStatusLine(st) ==
    <<"Mode: ", IF st.isRecording THEN "Recording"
                ELSE IF st.isEditing THEN "Editing" ELSE "Idle">>
    \o (IF Truthy(st.lastPartial) THEN <<" ...partial">> ELSE <<>>)
    \o <<" | Prompt: ">>
    \o (IF st.activePromptId # None THEN <<"#", ToString(st.activePromptId)>>
        ELSE <<"unsaved">>)

\* renderPromptPreview: the draft, followed while Recording by the live partial and an ellipsis
renderPromptPreview(st) ==
    LET base == Trim(st.currentPrompt)
        partial == IF st.lastPartial = Undef THEN Undef ELSE Trim(st.lastPartial)
    IN  IF st.isRecording /\ Truthy(partial)
        THEN (IF base # <<>> THEN base \o <<" ">> ELSE <<>>) \o partial \o <<" ", "...">>
        ELSE base

\* refreshPromptView: the editor shows the preview unless the user is editing;
\* the status line is rebuilt
refreshPromptView(w) ==
    [w EXCEPT !.editorText = IF w.state.isEditing THEN @ ELSE renderPromptPreview(w.state),
              !.statusText = buildStatusLine(w.state)]

\* appendFinalText with the text appended as received, untrimmed
appendFinalTextUntrimmed(w, text) ==
    IF Trim(text) = <<>> THEN w
    ELSE LET existing == Trim(w.state.currentPrompt)
         IN  refreshPromptView(
               [w EXCEPT !.state.currentPrompt =
                             IF existing # <<>> THEN existing \o <<" ">> \o text
                             ELSE text,
                         !.state.lastPartial = Undef])

\* appendFinalText
appendFinalText(w, text) ==
    IF Trim(text) = <<>> THEN w
    ELSE LET existing == Trim(w.state.currentPrompt)
         IN  refreshPromptView(
               [w EXCEPT !.state.currentPrompt =
                             IF existing # <<>> THEN existing \o <<" ">> \o Trim(text)
                             ELSE Trim(text),
                         !.state.lastPartial = Undef])

\* stopRecorder: SIGTERM to the held subprocess, and the handle is dropped at once
stopRecorder(w) ==
    LET rec == w.state.recorder
    IN  IF rec = None THEN w
        ELSE [w EXCEPT !.procs[rec].kills = @ + 1,
                       !.state.recorder = None]

\* spawn("node", args): a new subprocess, and the model directory its helper will look for
SpawnedProc(spawnOk, modelOk) ==
    [phase |-> IF spawnOk THEN "running" ELSE "spawnfail",
     modelOk |-> modelOk, kills |-> 0, forced |-> 0, lastStderr |-> <<>>]

\* startRecorder: stop the held subprocess, spawn a new one and hold it
startRecorder(w, spawnOk, modelOk) ==
    LET w1 == stopRecorder(w)
    IN  [w1 EXCEPT !.procs = Append(@, SpawnedProc(spawnOk, modelOk)),
                   !.state.recorder = Len(w1.procs) + 1]

\* startRecording without the reset of the draft
startRecordingKeepingDraft(w, spawnOk, modelOk) ==
    startRecorder(
      refreshPromptView(
        [w EXCEPT !.state.isRecording = TRUE,
                  !.state.isEditing = FALSE,
                  !.state.lastPartial = Undef,
                  !.state.activePromptId = None,
                  !.state.lastRun = None]),
      spawnOk, modelOk)

\* startRecording
startRecording(w, spawnOk, modelOk) ==
    startRecorder(
      refreshPromptView(
        [w EXCEPT !.state.isRecording = TRUE,
                  !.state.isEditing = FALSE,
                  !.state.currentPrompt = <<>>,
                  !.state.lastPartial = Undef,
                  !.state.activePromptId = None,
                  !.state.lastRun = None]),
      spawnOk, modelOk)

\* stopRecording without its early return
stopRecordingUnguarded(w) ==
    refreshPromptView(
      stopRecorder([w EXCEPT !.state.isRecording = FALSE,
                             !.state.lastPartial = Undef]))

\* stopRecording with the draft cleared as well
stopRecordingClearingDraft(w) ==
    IF ~w.state.isRecording THEN w
    ELSE refreshPromptView(
           stopRecorder([w EXCEPT !.state.isRecording = FALSE,
                                  !.state.currentPrompt = <<>>,
                                  !.state.lastPartial = Undef]))

\* stopRecording
stopRecording(w) ==
    IF ~w.state.isRecording THEN w
    ELSE refreshPromptView(
           stopRecorder([w EXCEPT !.state.isRecording = FALSE,
                                  !.state.lastPartial = Undef]))

\* toggleRecording that starts whatever the state
toggleRecordingAlwaysStarts(w, spawnOk, modelOk) ==
    startRecording(w, spawnOk, modelOk)

\* toggleRecording
toggleRecording(w, spawnOk, modelOk) ==
    IF w.state.isRecording THEN stopRecording(w)
    ELSE startRecording(w, spawnOk, modelOk)

\* promptEditor.onContentChange
onContentChange(w) ==
    IF ~w.state.isEditing THEN w
    ELSE LET w1 == [w EXCEPT !.state.currentPrompt = w.editorText,
                             !.state.lastPartial = Undef]
         IN  [w1 EXCEPT !.statusText = buildStatusLine(w1.state)]

\* enterEdit without the call of stopRecording
enterEditWithoutStop(w, notifies) ==
    LET w2 == [w EXCEPT !.state.isEditing = TRUE,
                        !.editorText = w.state.currentPrompt]
        w3 == IF notifies THEN onContentChange(w2) ELSE w2
    IN  [w3 EXCEPT !.statusText = buildStatusLine(w3.state)]

\* enterEdit; `notifies` is whether the editor's setText reports a content change
enterEdit(w, notifies) ==
    LET w1 == stopRecording(w)
        w2 == [w1 EXCEPT !.state.isEditing = TRUE,
                         !.editorText = w1.state.currentPrompt]
        w3 == IF notifies THEN onContentChange(w2) ELSE w2
    IN  [w3 EXCEPT !.statusText = buildStatusLine(w3.state)]

\* exitEdit without the copy of the editor's content into the draft
exitEditKeepingDraft(w) ==
    IF ~w.state.isEditing THEN w
    ELSE refreshPromptView([w EXCEPT !.state.isEditing = FALSE])

\* exitEdit
exitEdit(w) ==
    IF ~w.state.isEditing THEN w
    ELSE refreshPromptView([w EXCEPT !.state.isEditing = FALSE,
                                     !.state.currentPrompt = w.editorText])

----------------------------------------------------------------------------
(* Handlers of the subprocess's output and lifecycle *)

\* JavaScript null: the exit code of a signalled process, the signal of an exited one
Null == "null"

\* One line of the subprocess's stdout: the type it decodes to and its text
\* (or error) field; "notjson" is a line JSON.parse rejects
Lines ==
    [type : {"partial", "final"}, text : LineTexts \cup {Undef}]
    \cup [type : {"error"}, text : {Undef, <<"e">>}]
    \cup [type : {"unknown", "notjson"}, text : {Undef}]

\* handleSttEvent with a partial added to the live partial instead of replacing it
handleSttEventAccumulating(w, evt) ==
    IF evt.type = "partial"
    THEN refreshPromptView(
           [w EXCEPT !.state.lastPartial =
                         IF evt.text = Undef \/ @ = Undef THEN evt.text ELSE @ \o evt.text])
    ELSE IF evt.type = "final"
    THEN (IF evt.text = Undef THEN w ELSE appendFinalText(w, evt.text))
    ELSE IF evt.type = "error"
    THEN [w EXCEPT !.statusText = <<"STT error: ">> \o evt.text]
    ELSE w

\* handleSttEvent with an error event that also ends the recording
handleSttEventErrorStops(w, evt) ==
    IF evt.type = "partial"
    THEN refreshPromptView([w EXCEPT !.state.lastPartial = evt.text])
    ELSE IF evt.type = "final"
    THEN (IF evt.text = Undef THEN w ELSE appendFinalText(w, evt.text))
    ELSE IF evt.type = "error"
    THEN [stopRecorder([w EXCEPT !.state.isRecording = FALSE])
            EXCEPT !.statusText = <<"STT error: ">> \o evt.text]
    ELSE w

\* handleSttEvent; a final without text throws at text.trim(), before any write
handleSttEvent(w, evt) ==
    IF evt.type = "partial"
    THEN refreshPromptView([w EXCEPT !.state.lastPartial = evt.text])
    ELSE IF evt.type = "final"
    THEN (IF evt.text = Undef THEN w ELSE appendFinalText(w, evt.text))
    ELSE IF evt.type = "error"
    THEN [w EXCEPT !.statusText = <<"STT error: ">> \o evt.text]
    ELSE w

\* rl.on("line"): parse, dispatch, and swallow whatever is thrown
onLine(w, line) ==
    IF line.type = "notjson" THEN w ELSE handleSttEvent(w, line)

\* proc.stderr.on("data")
onStderr(w, p, data) ==
    LET msg == Trim(data)
        old == w.procs[p].lastStderr
        new == IF old # <<>> THEN old \o <<"\n">> \o msg ELSE msg
    IN  [w EXCEPT !.procs[p].lastStderr = new,
                  !.statusText = <<"STT error: ">> \o new]

\* The forced Recording -> Idle transition of the exit handler, with its diagnostic;
\* procs[p].forced counts the forced transitions subprocess p caused
forceIdle(w, p, detail) ==
    [w EXCEPT !.state.isRecording = FALSE,
              !.statusText = <<"Recording stopped (">> \o detail \o <<").">>,
              !.procs[p].forced = @ + 1]

\* proc.on("error") forcing the transition as the exit handler does
onProcErrorForcing(w, p) ==
    IF w.state.isRecording
    THEN forceIdle(w, p, <<"spawn error">>)
    ELSE [w EXCEPT !.statusText = <<"Failed to start STT helper: ", "spawn error">>]

\* proc.on("error")
onProcError(w, p) ==
    [w EXCEPT !.statusText = <<"Failed to start STT helper: ", "spawn error">>]

\* The detail of the exit diagnostic
exitDetail(lastStderr, code, signal) ==
    IF lastStderr # <<>> THEN lastStderr
    ELSE IF code # Null THEN <<"code ", code>>
    ELSE IF signal # Null THEN <<"signal ", signal>>
    ELSE <<"stt helper exited">>

\* proc.on("exit") reporting the exit without leaving Recording
onExitStillRecording(w, p, code, signal) ==
    IF w.state.isRecording
    THEN [w EXCEPT !.statusText = <<"Recording stopped (">>
                       \o exitDetail(w.procs[p].lastStderr, code, signal) \o <<").">>]
    ELSE w

\* proc.on("exit")
onExit(w, p, code, signal) ==
    IF w.state.isRecording
    THEN forceIdle(w, p, exitDetail(w.procs[p].lastStderr, code, signal))
    ELSE w

\* getLastRunForPrompt: the newest run logged for the prompt, or none
getLastRunForPrompt(rs, promptId) ==
    LET ids == {i \in 1..Len(rs) : rs[i] = promptId}
    IN  IF ids = {} THEN None ELSE CHOOSE i \in ids : \A j \in ids : j <= i

\* The options refreshHistory builds, by prompt id: each of the (up to 100)
\* prompts listPrompts returns, with the last run the store holds for it
HistoryOptions(ps, rs) ==
    [id \in 1..Len(ps) |-> [text |-> ps[id], lastRun |-> getLastRunForPrompt(rs, id)]]

\* refreshHistory: the list takes a new snapshot of the tables
refreshHistory(w) == [w EXCEPT !.options = HistoryOptions(w.prompts, w.runs)]

\* historyList.on(ITEM_SELECTED): the selected option is the list's snapshot of
\* the prompt; the store is asked for the last run only when the snapshot has none
onItemSelected(w, id) ==
    LET prompt == w.options[id]
    IN  refreshPromptView(
          [w EXCEPT !.state.currentPrompt = prompt.text,
                    !.state.activePromptId = id,
                    !.state.lastRun = IF prompt.lastRun # None THEN prompt.lastRun
                                      ELSE getLastRunForPrompt(w.runs, id),
                    !.state.isEditing = FALSE,
                    !.editorText = prompt.text])

\* savePrompt: INSERT, the new record takes the next id
savePrompt(ps, text) == Append(ps, text)

\* updatePrompt: UPDATE of the text of record id (every id the application
\* holds names a record: records are never deleted)
updatePrompt(ps, id, text) == [ps EXCEPT ![id] = text]

\* logRun: INSERT of a run of prompt promptId, the new record takes the next id
logRun(rs, promptId) == Append(rs, promptId)

\* handleSave that inserts a record at every save
handleSaveAlwaysInserts(w) ==
    LET content == Trim(w.state.currentPrompt)
        id == Len(w.prompts) + 1
    IN  IF content = <<>>
        THEN [w EXCEPT !.statusText = <<"Nothing to save - prompt is empty.">>]
        ELSE refreshHistory(
               [w EXCEPT !.prompts = savePrompt(@, content),
                         !.state.activePromptId = id,
                         !.statusText = <<"Saved prompt #", ToString(id)>>])

\* handleSave
handleSave(w) ==
    LET content == Trim(w.state.currentPrompt)
        active == w.state.activePromptId
        id == IF active # None THEN active ELSE Len(w.prompts) + 1
    IN  IF content = <<>>
        THEN [w EXCEPT !.statusText = <<"Nothing to save - prompt is empty.">>]
        ELSE refreshHistory(
               [w EXCEPT !.prompts = IF active # None
                                     THEN updatePrompt(@, active, content)
                                     ELSE savePrompt(@, content),
                         !.state.activePromptId = id,
                         !.statusText = <<"Saved prompt #", ToString(id)>>])

\* launchCodex: throws on an empty prompt and when tmux cannot be run,
\* otherwise spawns the tmux window without waiting for it
launchCodex(prompt, windowName, tmuxOk) ==
    IF Trim(prompt) = <<>>
    THEN [thrown |-> TRUE, message |-> "Prompt is empty", windowName |-> windowName]
    ELSE IF ~tmuxOk
    THEN [thrown |-> TRUE,
          message |-> "tmux executable not found in PATH. Please install tmux.",
          windowName |-> windowName]
    ELSE [thrown |-> FALSE, message |-> "", windowName |-> windowName]

\* buildWindowName: named after the prompt, or after the clock when there is none
buildWindowName(promptId) ==
    IF promptId # None THEN <<"codex-", ToString(promptId)>>
    ELSE <<"codex-", "Date.now()">>

\* handleCodexLaunch without the save of an unsaved draft
handleCodexLaunchWithoutSave(w, tmuxOk) ==
    LET prompt == Trim(w.state.currentPrompt)
    IN  IF prompt = <<>>
        THEN [w EXCEPT !.statusText = <<"Cannot launch Codex - prompt is empty.">>]
        ELSE LET w1 == w
                 id == w1.state.activePromptId
                 res == launchCodex(prompt, buildWindowName(id), tmuxOk)
             IN  IF res.thrown
                 THEN [w1 EXCEPT !.statusText = <<"Failed to launch Codex: ", res.message>>]
                 ELSE [w1 EXCEPT !.runs = IF id # None THEN logRun(@, id) ELSE @,
                                 !.state.lastRun = IF id # None THEN Len(w1.runs) + 1
                                                   ELSE @,
                                 !.statusText = <<"Codex launched in tmux window ">>
                                                \o res.windowName]

\* handleCodexLaunch; `tmuxOk` is whether `tmux -V` can be run
handleCodexLaunch(w, tmuxOk) ==
    LET prompt == Trim(w.state.currentPrompt)
    IN  IF prompt = <<>>
        THEN [w EXCEPT !.statusText = <<"Cannot launch Codex - prompt is empty.">>]
        ELSE LET w1 == IF w.state.activePromptId = None THEN handleSave(w) ELSE w
                 id == w1.state.activePromptId
                 res == launchCodex(prompt, buildWindowName(id), tmuxOk)
             IN  IF res.thrown
                 THEN [w1 EXCEPT !.statusText = <<"Failed to launch Codex: ", res.message>>]
                 ELSE [w1 EXCEPT !.runs = IF id # None THEN logRun(@, id) ELSE @,
                                 !.state.lastRun = IF id # None THEN Len(w1.runs) + 1
                                                   ELSE @,
                                 !.statusText = <<"Codex launched in tmux window ">>
                                                \o res.windowName]

\* copyToClipboard: no message (null) when one of wl-copy and xclip took the text
copyToClipboard(text, clipOk) ==
    IF clipOk THEN <<>> ELSE <<"Clipboard copy failed (wl-copy/xclip not found).">>

\* handleCopy
handleCopy(w, clipOk) ==
    LET prompt == Trim(w.state.currentPrompt)
        clipResult == copyToClipboard(prompt, clipOk)
    IN  IF prompt = <<>>
        THEN [w EXCEPT !.statusText = <<"Nothing to copy - prompt is empty.">>]
        ELSE [w EXCEPT !.statusText = IF clipResult # <<>> THEN clipResult
                                      ELSE <<"Prompt copied to clipboard.">>]

\* hasXdotool: "xdotool -v" ran and returned 0
hasXdotool(xdo) == xdo.installed

\* The detail of a failed injection: the stderr of xdotool, else the message of
\* the spawn error, else the exit status
injectDetail(res) ==
    IF Trim(res.stderr) # <<>> THEN Trim(res.stderr)
    ELSE IF res.error # Null THEN <<res.error>>
    ELSE <<res.status>>

\* handleXdotoolInject, with xdo the environment it meets: whether
\* XDO_WINDOW_ID is set, whether xdotool is installed, and what the
\* spawnSync of xdotool returns
handleXdotoolInject(w, xdo) ==
    LET prompt == Trim(w.state.currentPrompt)
    IN  IF prompt = <<>>
        THEN [w EXCEPT !.statusText = <<"Nothing to inject - prompt is empty.">>]
        ELSE IF ~xdo.target
        THEN [w EXCEPT !.statusText =
                 <<"Set XDO_WINDOW_ID to target window id (xdotool search...).">>]
        ELSE IF ~hasXdotool(xdo)
        THEN [w EXCEPT !.statusText = <<"xdotool not found in PATH.">>]
        ELSE IF xdo.res.error # Null \/ xdo.res.status # "0"
        THEN [w EXCEPT !.statusText = <<"Inject failed: ">> \o injectDetail(xdo.res)]
        ELSE [w EXCEPT !.statusText = <<"Injected prompt via xdotool.">>]

\* toggleHistory: the list is refreshed when the panel opens
toggleHistory(w) ==
    LET w1 == [w EXCEPT !.state.historyOpen = ~@]
    IN  IF w1.state.historyOpen THEN refreshHistory(w1) ELSE w1

\* shutdown, up to process.exit
shutdown(w) == stopRecording(w)

----------------------------------------------------------------------------
(* The state machine *)

\* startTui, up to the first refreshPromptView
InitState ==
    [currentPrompt |-> <<>>, activePromptId |-> None, lastPartial |-> Undef,
     isRecording |-> FALSE, isEditing |-> FALSE, historyOpen |-> TRUE,
     lastRun |-> None, recorder |-> None]

Init ==
    /\ state = InitState
    /\ procs = <<>>
    /\ statusText = buildStatusLine(InitState)
    /\ editorText = <<>>
    /\ prompts = StoredPrompts
    /\ runs = StoredRuns
    /\ historyOptions = HistoryOptions(StoredPrompts, StoredRuns)
    /\ modelExists \in BOOLEAN
    /\ quit = FALSE
    /\ nStderr = 0
    /\ lastOp = [op |-> "init", proc |-> None]
    /\ finalsLog = <<>>
    /\ draftPure = TRUE
    /\ lateInEdit = FALSE
    /\ sinceStart = <<>>

\* The handlers lastOp tells apart
TrackedOps == {"stop", "final", "exit"}

\* The world after a handler, and the history of the step
Commit(w, op, p, log, pure) ==
    /\ state' = w.state
    /\ procs' = w.procs
    /\ statusText' = w.statusText
    /\ editorText' = w.editorText
    /\ lastOp' = IF op \in TrackedOps THEN [op |-> op, proc |-> p]
                  ELSE [op |-> "other", proc |-> None]
    /\ finalsLog' = IF w.state.isRecording THEN log ELSE <<>>
    /\ draftPure' = IF w.state.isRecording THEN pure ELSE TRUE
    /\ lateInEdit' = IF state.isEditing /\ op \in {"partial", "final"}
                      THEN lateInEdit \/ w.state # state
                      ELSE /\ state.isEditing
                           /\ w.state.isEditing \/ op = "exitEdit"
                           /\ lateInEdit
    /\ sinceStart' =
         IF op = "start" THEN << [base |-> prompts, saves |-> 0] >>
         ELSE IF op = "select" \/ sinceStart = <<>> THEN <<>>
         ELSE IF op = "save" \/ w.state.activePromptId # state.activePromptId
         THEN << [sinceStart[1] EXCEPT !.saves = IF @ < MaxSaves THEN @ + 1 ELSE @] >>
         ELSE sinceStart
    /\ prompts' = w.prompts
    /\ runs' = w.runs
    /\ historyOptions' = w.options
    /\ UNCHANGED modelExists

Pids == 1..Len(procs)

\* stdout of the subprocess is still readable
StdoutOpen(p) == procs[p].phase \in {"running", "exited"}

\* keypress "r": the handler returns before its switch while Editing
KeyR(spawnOk, maxProcs) ==
    /\ ~quit
    /\ state.isEditing \/ state.isRecording \/ Len(procs) < maxProcs
    /\ Commit(IF state.isEditing THEN World
              ELSE toggleRecording(World, spawnOk, modelExists),
              IF state.isEditing THEN "none"
              ELSE IF state.isRecording THEN "stop" ELSE "start", None, <<>>, TRUE)
    /\ UNCHANGED <<quit, nStderr>>

\* keypress ctrl+e
KeyCtrlE(notifies) ==
    /\ ~quit /\ ~state.isEditing
    /\ Commit(enterEdit(World, notifies), "enterEdit", None, <<>>, TRUE)
    /\ UNCHANGED <<quit, nStderr>>

\* keypress escape (or ctrl+q while editing)
KeyEscape ==
    /\ ~quit
    /\ Commit(exitEdit(World), "exitEdit", None, finalsLog, draftPure)
    /\ UNCHANGED <<quit, nStderr>>

\* keypress "s" outside the editor
KeyS ==
    /\ ~quit /\ ~state.isEditing
    /\ LET w == handleSave(World)
       IN  /\ Len(w.prompts) <= MaxPrompts
           /\ Commit(w, IF Trim(state.currentPrompt) = <<>> THEN "nosave" ELSE "save",
                     None, finalsLog, draftPure)
    /\ UNCHANGED <<quit, nStderr>>

\* keypress ctrl+s in the editor
KeyCtrlS ==
    /\ ~quit /\ state.isEditing
    /\ LET w == exitEdit(handleSave([World EXCEPT !.state.currentPrompt = editorText]))
       IN  /\ Len(w.prompts) <= MaxPrompts
           /\ Commit(w, IF Trim(editorText) = <<>> THEN "nosave" ELSE "save",
                     None, <<>>, TRUE)
    /\ UNCHANGED <<quit, nStderr>>

\* keypress "c" outside the editor
KeyC(tmuxOk) ==
    /\ ~quit /\ ~state.isEditing
    /\ LET w == handleCodexLaunch(World, tmuxOk)
       IN  /\ Len(w.prompts) <= MaxPrompts /\ Len(w.runs) <= MaxRuns
           /\ Commit(w, "launch", None, finalsLog, draftPure)
    /\ UNCHANGED <<quit, nStderr>>

\* keypress "y" outside the editor
KeyY(clipOk) ==
    /\ ~quit /\ ~state.isEditing
    /\ Commit(handleCopy(World, clipOk), "copy", None, finalsLog, draftPure)
    /\ UNCHANGED <<quit, nStderr>>

\* keypress "i" outside the editor
KeyI(xdo) ==
    /\ ~quit /\ ~state.isEditing
    /\ Commit(handleXdotoolInject(World, xdo), "inject", None, finalsLog, draftPure)
    /\ UNCHANGED <<quit, nStderr>>

\* What spawnSync of xdotool returns: it ran and returned 0, or it returned 1
\* with a message on its stderr or with none
XdoResults ==
    { [error |-> Null, status |-> "0", stderr |-> <<>>],
      [error |-> Null, status |-> "1", stderr |-> <<>>],
      [error |-> Null, status |-> "1", stderr |-> <<"e", " ">>] }

\* The environments of an injection
XdoRuns ==
    { [target |-> FALSE, installed |-> FALSE, res |-> [error |-> Null, status |-> "0", stderr |-> <<>>]],
      [target |-> TRUE, installed |-> FALSE, res |-> [error |-> Null, status |-> "0", stderr |-> <<>>]] }
    \cup { [target |-> TRUE, installed |-> TRUE, res |-> r] : r \in XdoResults }

\* The injections made with XDO_WINDOW_ID unset
UnsetTargetRuns == { xdo \in XdoRuns : ~xdo.target }

\* keypress "h"
KeyH ==
    /\ ~quit /\ ~state.isEditing
    /\ Commit(toggleHistory(World), "toggleHistory", None, finalsLog, draftPure)
    /\ UNCHANGED <<quit, nStderr>>

\* the history list consumes the key and reports the selected item
ItemSelected(id) ==
    /\ ~quit /\ state.historyOpen
    /\ id \in DOMAIN historyOptions
    /\ Commit(onItemSelected(World, id), "select", None, <<>>, FALSE)
    /\ UNCHANGED <<quit, nStderr>>

\* the user changes the text of the focused editor
EditorInput(text) ==
    /\ ~quit /\ state.isEditing
    /\ Commit(onContentChange([World EXCEPT !.editorText = text]),
              "edit", None, <<>>, TRUE)
    /\ UNCHANGED <<quit, nStderr>>

\* keypress ctrl+c (or "q" outside the editor)
KeyQuit ==
    /\ ~quit
    /\ Commit(shutdown(World), "shutdown", None, <<>>, TRUE)
    /\ quit' = TRUE
    /\ UNCHANGED nStderr

\* a line of subprocess p's stdout reaches the line handler
StdoutLine(p, line, logging) ==
    /\ ~quit /\ p \in Pids /\ StdoutOpen(p) /\ procs[p].modelOk
    /\ LET w == onLine(World, line)
           logged == logging /\ state.isRecording /\ draftPure
                     /\ line.type = "final" /\ line.text # Undef
       IN  /\ Len(w.state.currentPrompt) <= MaxDraftLen
           /\ logged => Len(finalsLog) < MaxFinals
           /\ Commit(w, line.type, None,
                     IF logged THEN Append(finalsLog, line.text) ELSE finalsLog,
                     draftPure)
    /\ UNCHANGED <<quit, nStderr>>

\* a chunk of subprocess p's stderr reaches the data handler
StderrData(p, data) ==
    /\ ~quit /\ p \in Pids /\ StdoutOpen(p)
    /\ nStderr < MaxStderr
    /\ Commit(onStderr(World, p, data), "stderr", p, finalsLog, draftPure)
    /\ nStderr' = nStderr + 1
    /\ UNCHANGED quit

\* subprocess p reports an error: it could not be spawned, or a signal could not be sent
ProcError(p) ==
    /\ ~quit /\ p \in Pids /\ procs[p].phase \in {"spawnfail", "running"}
    /\ LET w == onProcError(World, p)
       IN  Commit([w EXCEPT !.procs[p].phase =
                                IF @ = "spawnfail" THEN "closed" ELSE @],
                  "procError", p, finalsLog, draftPure)
    /\ UNCHANGED <<quit, nStderr>>

\* The ways a helper ends: process.exit(0) after SIGTERM, process.exit(1) on a
\* missing model or recorder failure, or death by signal
ExitReasons ==
    { [code |-> "0", signal |-> Null], [code |-> "1", signal |-> Null],
      [code |-> Null, signal |-> "SIGTERM"] }

\* subprocess p exits
ProcExit(p, r) ==
    /\ ~quit /\ p \in Pids /\ procs[p].phase = "running"
    /\ procs[p].modelOk \/ r.code # "0"
    /\ Commit(onExit([World EXCEPT !.procs[p].phase = "exited"], p, r.code, r.signal),
              "exit", p, finalsLog, draftPure)
    /\ UNCHANGED <<quit, nStderr>>

\* the stdout and stderr of the exited subprocess p reach their end
StdoutClose(p) ==
    /\ ~quit /\ p \in Pids /\ procs[p].phase = "exited"
    /\ Commit([World EXCEPT !.procs[p].phase = "closed"], "close", p, finalsLog, draftPure)
    /\ UNCHANGED <<quit, nStderr>>

\* Lines of a well-behaved helper: a partial, a final and an error event
PlainLines ==
    { [type |-> "partial", text |-> <<"a">>], [type |-> "final", text |-> <<"a">>],
      [type |-> "error", text |-> <<"e">>] }

\* The application and its subprocesses: every lifecycle interleaving of up to
\* MaxProcs subprocesses, each emitting well-formed lines, with the history
\* panel left open as it is at startup, on a host with no clipboard tool and
\* XDO_WINDOW_ID unset
Next ==
    \/ \E spawnOk \in BOOLEAN : KeyR(spawnOk, MaxProcs)
    \/ \E notifies \in BOOLEAN : KeyCtrlE(notifies)
    \/ KeyEscape
    \/ \E id \in 1..Len(historyOptions) : ItemSelected(id)
    \/ \E text \in {<<"b">>} : EditorInput(text)
    \/ KeyQuit
    \/ \E p \in Pids, line \in PlainLines : StdoutLine(p, line, FALSE)
    \/ \E p \in Pids, data \in StderrTexts : StderrData(p, data)
    \/ \E p \in Pids : ProcError(p)
    \/ \E p \in Pids, r \in ExitReasons : ProcExit(p, r)
    \/ \E p \in Pids : StdoutClose(p)
    \/ \E clipOk \in {FALSE} : KeyY(clipOk)
    \/ \E xdo \in UnsetTargetRuns : KeyI(xdo)

Spec == Init /\ [][Next]_vars

\* The transcript text: up to MaxTextProcs subprocesses that start, emit any
\* line of Lines, and exit, while the user records, edits, selects, opens or
\* closes the history panel, and copies or injects the draft on any host
NextText ==
    \/ KeyR(TRUE, MaxTextProcs)
    \/ \E notifies \in BOOLEAN : KeyCtrlE(notifies)
    \/ KeyEscape
    \/ KeyH
    \/ \E id \in 1..Len(historyOptions) : ItemSelected(id)
    \/ \E text \in EditTexts : EditorInput(text)
    \/ \E p \in Pids, line \in Lines : StdoutLine(p, line, TRUE)
    \/ \E p \in Pids, r \in ExitReasons : ProcExit(p, r)
    \/ \E clipOk \in BOOLEAN : KeyY(clipOk)
    \/ \E xdo \in XdoRuns : KeyI(xdo)

SpecText == Init /\ [][NextText]_vars

\* The text the user leaves in the editor, in the specification of the store
StoreEditTexts == { <<"a", " ">> }

\* The line of a helper that only reports the final "a"
FinalLines == { [type |-> "final", text |-> <<"a">>] }

\* The store: the user records with up to MaxStoreProcs subprocesses that emit
\* finals and are never seen to exit, edits, selects, saves and launches, with
\* up to MaxPrompts prompts and MaxRuns runs on record, on a host with no
\* clipboard tool and XDO_WINDOW_ID unset
NextStore ==
    \/ KeyR(TRUE, MaxStoreProcs)
    \/ \E notifies \in BOOLEAN : KeyCtrlE(notifies)
    \/ KeyEscape
    \/ \E id \in 1..Len(historyOptions) : ItemSelected(id)
    \/ \E text \in StoreEditTexts : EditorInput(text)
    \/ KeyS
    \/ KeyCtrlS
    \/ \E tmuxOk \in BOOLEAN : KeyC(tmuxOk)
    \/ \E p \in Pids, line \in FinalLines : StdoutLine(p, line, FALSE)
    \/ \E clipOk \in {FALSE} : KeyY(clipOk)
    \/ \E xdo \in UnsetTargetRuns : KeyI(xdo)

SpecStore == Init /\ [][NextStore]_vars

----------------------------------------------------------------------------
(* Claims *)

\* C1: a partial or final delivered while the state is not Recording is
\* discarded: the draft and the live partial are the same after it as before.
LateEventsDiscarded ==
    [][\A p \in Pids, line \in PlainLines :
         (/\ line.type \in {"partial", "final"}
          /\ ~state.isRecording
          /\ StdoutLine(p, line, FALSE))
         => /\ state'.currentPrompt = state.currentPrompt
            /\ state'.lastPartial = state.lastPartial]_vars

\* Subprocesses spawned and not yet exited
Alive == {p \in Pids : procs[p].phase = "running"}

\* C2: at no point are two recognition subprocesses alive at once.
OneSubprocessAlive == Cardinality(Alive) <= 1

\* The single-space join of a sequence of texts
RECURSIVE Join(_)
Join(ts) ==
    IF ts = <<>> THEN <<>>
    ELSE IF Len(ts) = 1 THEN ts[1]
    ELSE ts[1] \o <<" ">> \o Join(Tail(ts))

NonEmpty(t) == t # <<>>

\* The trimmed texts of a sequence of finals, those that trim to nothing left out
TrimmedFinals(fs) == SelectSeq([i \in 1..Len(fs) |-> Trim(fs[i])], NonEmpty)

\* C3: the draft of a recording is the single-space join of the trimmed texts of
\* the finals delivered since startRecording, in arrival order; a final that
\* trims to nothing contributes nothing.
DraftIsJoinOfFinals ==
    (state.isRecording /\ draftPure)
        => state.currentPrompt = Join(TrimmedFinals(finalsLog))

\* C3 witness: a recording that received "a" and then " b " holds the draft "a b"
DraftJoinedTwoFinals ==
    /\ state.isRecording /\ draftPure
    /\ finalsLog = << <<"a">>, <<" ", "b", " ">> >>
    /\ state.currentPrompt = <<"a", " ", "b">>

\* A text a transcript event can carry: present, and not blank
ValidText(t) == t # Undef /\ Trim(t) # <<>>

\* The preview of a draft with one live partial
PreviewOf(draft, partial) ==
    (IF Trim(draft) # <<>> THEN Trim(draft) \o <<" ">> ELSE <<>>)
    \o Trim(partial) \o <<" ", "...">>

\* C4: while Recording, a partial event replaces the live partial and the
\* preview shows the draft and that partial only; a final event clears the
\* live partial and the preview is the draft alone.
OnePartialLive ==
    [][\A p \in Pids, line \in Lines :
         (/\ state.isRecording
          /\ ValidText(line.text)
          /\ StdoutLine(p, line, TRUE))
         => /\ line.type = "partial" =>
                 /\ state'.lastPartial = line.text
                 /\ state'.currentPrompt = state.currentPrompt
                 /\ editorText' = PreviewOf(state.currentPrompt, line.text)
            /\ line.type = "final" =>
                 /\ state'.lastPartial = Undef
                 /\ editorText' = Trim(state'.currentPrompt)]_vars

\* C4 witness: a final arrived in a recording; no partial is live and the
\* editor shows the draft
FinalClearedPartial ==
    /\ lastOp.op = "final"
    /\ state.isRecording
    /\ state.lastPartial = Undef
    /\ state.currentPrompt # <<>>
    /\ editorText = state.currentPrompt

\* A line that carries no transcript event
Malformed(line) ==
    \/ line.type \in {"notjson", "unknown"}
    \/ line.text = Undef
    \/ line.type \in {"partial", "final"} /\ Trim(line.text) = <<>>

\* The partial the user is shown, if any
LivePartial(st) ==
    IF st.lastPartial # Undef /\ Trim(st.lastPartial) # <<>>
    THEN Trim(st.lastPartial) ELSE Undef

\* C5: a malformed line leaves the draft, the live partial and the
\* Idle/Recording/Editing state as they were.
MalformedLinesIgnored ==
    [][\A p \in Pids, line \in Lines :
         (Malformed(line) /\ StdoutLine(p, line, TRUE))
         => /\ state'.currentPrompt = state.currentPrompt
            /\ LivePartial(state') = LivePartial(state)
            /\ state'.isRecording = state.isRecording
            /\ state'.isEditing = state.isEditing]_vars

\* C6: stopRecording called when not Recording changes nothing and signals no
\* subprocess, and a second call in a row leaves everything as the first did.
StopIsIdempotent ==
    LET once == stopRecording(World)
    IN  /\ stopRecording(once) = once
        /\ ~state.isRecording => once = World

\* C6 witness: stopRecording has just stopped a recording and signalled its subprocess
StoppedOnce ==
    /\ lastOp.op = "stop"
    /\ ~state.isRecording
    /\ state.recorder = None
    /\ \E p \in Pids : procs[p].kills = 1 /\ procs[p].phase = "running"

\* The status is the exit handler's diagnostic, with a detail
IsExitDiagnostic(status) ==
    /\ Len(status) >= 3
    /\ status[1] = "Recording stopped ("

\* C7: a subprocess that was not asked to stop exits while Recording: the state
\* is Idle afterwards, a diagnostic is shown, and the draft is what it was.
AbnormalExitForcesIdle ==
    [][\A p \in Pids, r \in ExitReasons :
         (/\ state.isRecording
          /\ procs[p].kills = 0
          /\ ProcExit(p, r))
         => /\ ~state'.isRecording /\ ~state'.isEditing
            /\ IsExitDiagnostic(statusText')
            /\ state'.currentPrompt = state.currentPrompt]_vars

\* C7 witness: the exit of an unsignalled subprocess forced Idle and the
\* draft "a" is still there under the diagnostic
ForcedIdleKeepsDraft ==
    /\ lastOp.op = "exit"
    /\ procs[lastOp.proc].kills = 0 /\ procs[lastOp.proc].forced = 1
    /\ ~state.isRecording /\ ~state.isEditing
    /\ IsExitDiagnostic(statusText)
    /\ state.currentPrompt = <<"a">>

\* C8: the exit of a subprocess that stopRecorder signalled is silent: no
\* state transition and no diagnostic, whatever happened since the signal.
StoppedExitIsSilent ==
    [][\A p \in Pids, r \in ExitReasons :
         (procs[p].kills > 0 /\ ProcExit(p, r))
         => /\ state'.isRecording = state.isRecording
            /\ statusText' = statusText]_vars

\* C9: a subprocess forces the Recording -> Idle transition at most once.
ForcedAtMostOnce == \A p \in Pids : procs[p].forced <= 1

\* C9 witness: a subprocess forced the transition by its exit and its streams
\* have since ended
ForcedOnceAndGone ==
    \E p \in Pids : procs[p].forced = 1 /\ procs[p].phase = "closed"

\* C10: starting a recording while the model path does not exist spawns no
\* subprocess and leaves mode, draft, live partial and active prompt as they were.
MissingModelFailsFast ==
    [][\A spawnOk \in BOOLEAN :
         (/\ ~modelExists
          /\ ~state.isRecording
          /\ KeyR(spawnOk, MaxProcs))
         => /\ procs' = procs
            /\ state'.isRecording = state.isRecording
            /\ state'.isEditing = state.isEditing
            /\ state'.currentPrompt = state.currentPrompt
            /\ state'.lastPartial = state.lastPartial
            /\ state'.activePromptId = state.activePromptId]_vars

\* C11: leaving the editor makes the draft the content the editor holds at that
\* moment, whatever the subprocesses delivered while the editor was open.
ExitEditCommitsEditor ==
    [][(state.isEditing /\ KeyEscape)
         => /\ ~state'.isEditing
            /\ state'.currentPrompt = editorText]_vars

\* C11 witness: the user typed "b", a late line of a stopped subprocess changed
\* the state behind the open editor, and exitEdit left the draft "b"
ExitedEditAfterLateLine ==
    /\ lateInEdit
    /\ ~state.isEditing /\ ~state.isRecording
    /\ state.currentPrompt = <<"b">>

\* C12: an error event of the transcript sets the status message and nothing
\* else: the Idle/Recording/Editing state, the draft, the held subprocess and
\* every subprocess are as they were.
ErrorEventOnlySetsStatus ==
    [][\A p \in Pids, line \in Lines :
         (line.type = "error" /\ StdoutLine(p, line, TRUE))
         => /\ statusText' = <<"STT error: ">> \o line.text
            /\ state'.isRecording = state.isRecording
            /\ state'.isEditing = state.isEditing
            /\ state'.currentPrompt = state.currentPrompt
            /\ state'.recorder = state.recorder
            /\ procs' = procs]_vars

\* C12 witness: the error "e" is shown while the recording goes on with its
\* draft "a" and its subprocess
ErrorShownWhileRecording ==
    /\ statusText = <<"STT error: ", "e">>
    /\ state.isRecording
    /\ state.currentPrompt = <<"a">>
    /\ state.recorder # None /\ procs[state.recorder].phase = "running"

\* C13: a launch that fails reports the failure in the status message and
\* leaves the draft, the mode, the active prompt id, the last run and the
\* stored prompts and runs as they were.
FailedLaunchChangesNothing ==
    [][(/\ Trim(state.currentPrompt) # <<>>
        /\ KeyC(FALSE))
         => /\ statusText'[1] = "Failed to launch Codex: "
            /\ state' = state
            /\ prompts' = prompts
            /\ runs' = runs]_vars

\* C14: whenever the state is Idle or Editing, at quit included, every
\* subprocess spawned so far has exited or has been sent the termination signal.
NoLiveSessionOutsideRecording ==
    ~state.isRecording
        => \A p \in Pids : procs[p].phase # "running" \/ procs[p].kills > 0

\* C15: while Recording, a line of a subprocess other than the one spawned for
\* this recording is not written into the draft, the live partial or the preview.
OnlyOwnSubprocessWrites ==
    [][\A p \in Pids, line \in PlainLines :
         (/\ state.isRecording
          /\ p # state.recorder
          /\ line.type \in {"partial", "final"}
          /\ StdoutLine(p, line, FALSE))
         => /\ state'.currentPrompt = state.currentPrompt
            /\ state'.lastPartial = state.lastPartial
            /\ editorText' = editorText]_vars

\* C16: when the subprocess of the recording reports that it could not be
\* spawned, the state is forced from Recording to Idle.
SpawnErrorForcesIdle ==
    [][\A p \in Pids :
         (/\ state.isRecording
          /\ p = state.recorder
          /\ procs[p].phase = "spawnfail"
          /\ ProcError(p))
         => ~state'.isRecording]_vars

\* C17: a live partial does not survive the next transcript event: after a
\* partial, a final or an error event the live partial is the new partial, or none.
PartialSupersededByAnyEvent ==
    [][\A p \in Pids, line \in Lines :
         (/\ state.isRecording
          /\ LivePartial(state) # Undef
          /\ ~Malformed(line)
          /\ StdoutLine(p, line, TRUE))
         => state'.lastPartial = IF line.type = "partial" THEN line.text ELSE Undef]_vars

\* C18: the start of a recording from Idle leaves the draft empty and no
\* partial live, makes the state Recording and not Editing, and spawns exactly
\* one subprocess, which is the one held afterwards.
StartRecordingResets ==
    [][\A spawnOk \in BOOLEAN :
         (/\ ~state.isRecording /\ ~state.isEditing
          /\ KeyR(spawnOk, MaxProcs))
         => /\ state'.currentPrompt = <<>>
            /\ state'.lastPartial = Undef
            /\ state'.isRecording /\ ~state'.isEditing
            /\ Len(procs') = Len(procs) + 1
            /\ state'.recorder = Len(procs')
            /\ procs'[Len(procs')].kills = 0]_vars

\* C18 witness: a second recording has started: its draft is empty, no partial
\* is live and its subprocess is the second one spawned
RecordingStartedAfresh ==
    /\ state.isRecording /\ ~state.isEditing
    /\ Len(procs) = 2 /\ state.recorder = 2
    /\ procs[1].kills = 1 /\ procs[2].kills = 0
    /\ state.currentPrompt = <<>>
    /\ state.lastPartial = Undef

\* C19: the record key toggles: pressed while Recording it stops the recording
\* and spawns nothing, pressed while Idle it starts one, and pressed while
\* Editing it changes nothing.
RecordKeyToggles ==
    [][\A spawnOk \in BOOLEAN :
         KeyR(spawnOk, MaxProcs)
         => /\ state.isRecording =>
                 /\ ~state'.isRecording /\ ~state'.isEditing
                 /\ Len(procs') = Len(procs)
            /\ (~state.isRecording /\ ~state.isEditing) =>
                 /\ state'.isRecording
                 /\ Len(procs') = Len(procs) + 1
            /\ state.isEditing =>
                 /\ state' = state /\ procs' = procs
                 /\ editorText' = editorText /\ statusText' = statusText]_vars

\* C19 witness: the key was pressed twice: one subprocess was spawned, the
\* second press stopped the recording and signalled it
ToggledOffAfterOneSpawn ==
    /\ lastOp.op = "stop"
    /\ ~state.isRecording /\ ~state.isEditing
    /\ Len(procs) = 1 /\ procs[1].kills = 1

\* C20: the stop of a recording, by the record key or at shutdown, signals the
\* held subprocess, drops the handle, clears the live partial and leaves the
\* draft as it was; the state is Idle.
StopKeepsDraft ==
    [][(/\ state.isRecording
        /\ KeyQuit \/ \E spawnOk \in BOOLEAN : KeyR(spawnOk, MaxProcs))
         => /\ state.recorder # None
            /\ procs' = [procs EXCEPT ![state.recorder].kills = @ + 1]
            /\ state'.recorder = None
            /\ state'.lastPartial = Undef
            /\ state'.currentPrompt = state.currentPrompt
            /\ ~state'.isRecording /\ ~state'.isEditing]_vars

\* C20 witness: a recording that had the draft "a" was stopped: the draft is
\* still "a", no partial is live, no subprocess is held and one was signalled
StoppedWithDraft ==
    /\ lastOp.op = "stop"
    /\ ~state.isRecording
    /\ state.recorder = None
    /\ state.lastPartial = Undef
    /\ state.currentPrompt = <<"a">>
    /\ \E p \in Pids : procs[p].kills = 1

\* C21: right after enterEdit, from whatever state, the state is Editing and
\* not Recording, no subprocess is held, the subprocess that was held has been
\* sent the termination signal, and the editor holds the draft.
EnterEditStopsSession ==
    [][\A notifies \in BOOLEAN :
         KeyCtrlE(notifies)
         => /\ state'.isEditing /\ ~state'.isRecording
            /\ state'.recorder = None
            /\ state.recorder # None => procs'[state.recorder].kills > 0
            /\ editorText' = state'.currentPrompt]_vars

\* C22: a step that starts and ends in Recording changes the draft only when
\* it is the delivery of a final.
DraftChangesOnlyByFinals ==
    [][(/\ state.isRecording /\ state'.isRecording
        /\ state'.currentPrompt # state.currentPrompt)
         => \E p \in Pids, line \in PlainLines :
               line.type = "final" /\ StdoutLine(p, line, FALSE)]_vars

\* C23: a start requested while a subprocess is still held fails before any
\* launch: no subprocess is spawned and none is signalled.
StartFailsFastWhenHeld ==
    [][\A spawnOk \in BOOLEAN :
         (/\ ~state.isRecording /\ ~state.isEditing
          /\ state.recorder # None
          /\ KeyR(spawnOk, MaxProcs))
         => procs' = procs]_vars

\* The text sub occurs in the text s
Contains(s, sub) ==
    \E i \in 0..(Len(s) - Len(sub)) : SubSeq(s, i + 1, i + Len(sub)) = sub

\* The exit code, or else the signal, of an exit
ReasonOf(r) == IF r.code # Null THEN r.code ELSE r.signal

\* C24: the diagnostic of an exit that forces Idle names the exit code or the
\* signal and, when the subprocess wrote to stderr, holds that text as well.
DiagnosticHasReasonAndStderr ==
    [][\A p \in Pids, r \in ExitReasons :
         (/\ state.isRecording
          /\ procs[p].kills = 0
          /\ ProcExit(p, r))
         => /\ IsExitDiagnostic(statusText')
            /\ Contains(statusText', <<ReasonOf(r)>>)
            /\ Contains(statusText', procs[p].lastStderr)]_vars

\* C25: isRecording and isEditing are never both true.
OneModeAtATime == ~(state.isRecording /\ state.isEditing)

\* C25 witness: the editor was opened over a running recording: the state is
\* Editing alone, and the recording's subprocess was signalled and is still alive
EditingOverStoppedRecording ==
    /\ state.isEditing /\ ~state.isRecording
    /\ state.recorder = None
    /\ \E p \in Pids : procs[p].kills = 1 /\ procs[p].phase = "running"

\* C26: no partial is buffered outside Recording, for every way out of
\* Recording: a step that leaves Recording (stop, enterEdit, quit, exit of the
\* subprocess) leaves lastPartial cleared.
LeavingRecordingClearsPartial ==
    [][(state.isRecording /\ ~state'.isRecording)
         => state'.lastPartial = Undef]_vars

\* The draft a save key stores: the editor's content when pressed in the editor
SavedDraft == Trim(IF state.isEditing THEN editorText ELSE state.currentPrompt)

\* C27: a save of a blank draft stores nothing and changes no state; a save
\* made once a recording was started, with no history item selected since,
\* leaves exactly one record more than the table held at that start: that
\* record holds the draft and is the active prompt, and the records the table
\* held at the start are as they were.
SaveOncePerRecording ==
    [][(KeyS \/ KeyCtrlS)
         => /\ SavedDraft = <<>> =>
                 /\ prompts' = prompts /\ runs' = runs
                 /\ KeyS => state' = state
            /\ (SavedDraft # <<>> /\ sinceStart # <<>>) =>
                 LET base == sinceStart[1].base
                     id == Len(base) + 1
                 IN  /\ prompts' = Append(base, SavedDraft)
                     /\ state'.activePromptId = id
                     /\ runs' = runs]_vars

\* C27 witness: the second save of one recording: the table holds the one
\* record "a a" more than at the start of the recording
SavedTwiceOneRecord ==
    /\ sinceStart # <<>>
    /\ sinceStart[1].saves = 2
    /\ prompts = Append(sinceStart[1].base, <<"a", " ", "a">>)
    /\ state.activePromptId = Len(prompts)

\* Every run on record is a run of a prompt on record
RunsReferToPrompts(ps, rs) == \A i \in 1..Len(rs) : rs[i] \in 1..Len(ps)

\* C28: a launch of a blank draft stores nothing and logs nothing; a launch of
\* an unsaved draft stores it as a new record, the active prompt, whether or
\* not tmux can be run; a run is logged only by a launch that found tmux, for
\* the active prompt; and after every step each run on record refers to a
\* prompt on record.
LaunchBookkeeping ==
    [][/\ RunsReferToPrompts(prompts', runs')
       /\ \A tmuxOk \in BOOLEAN :
            KeyC(tmuxOk)
            => LET draft == Trim(state.currentPrompt)
               IN  /\ draft = <<>> =>
                        /\ state' = state /\ prompts' = prompts /\ runs' = runs
                        /\ statusText' = <<"Cannot launch Codex - prompt is empty.">>
                   /\ (draft # <<>> /\ state.activePromptId = None) =>
                        /\ prompts' = Append(prompts, draft)
                        /\ state'.activePromptId = Len(prompts')
                   /\ (draft # <<>> /\ tmuxOk) =>
                        /\ runs' = Append(runs, state'.activePromptId)
                        /\ state'.lastRun = Len(runs')
                   /\ ~tmuxOk => runs' = runs]_vars

\* C28 witness: the draft "a" of a recording was launched: it is record 2 and
\* run 2 is a run of it
LaunchedRecordedDraft ==
    /\ statusText = <<"Codex launched in tmux window ", "codex-", "2">>
    /\ sinceStart # <<>>
    /\ prompts = << <<"b">>, <<"a">> >>
    /\ runs = <<1, 2>>
    /\ state.activePromptId = 2 /\ state.lastRun = 2

====
